---------------------------- MODULE Spec2Model ----------------------------
(***************************************************************************)
(* Relationship detection (RelationshipAnalyzer) and join-pipeline        *)
(* synthesis (PipelineBuilder) of data2ontology.                           *)
(*                                                                         *)
(* Python strings are modelled as sequences of one-character strings, so   *)
(* that regex extraction, case folding, pluralisation and the difflib      *)
(* ratio are computed character by character.                              *)
(***************************************************************************)
EXTENDS Integers, Sequences, FiniteSets, TLC

VARIABLES
    tables,                  \* metadata.tables
    similarity_threshold,    \* config.similarity_threshold as <<num, den>>
    detected_relationships,  \* metadata.detected_relationships
    relationship_graph,      \* self.relationship_graph of the analyzer / builder
    call,                    \* the last operation invoked, with its arguments
    ret                      \* what that operation returned or raised

vars == <<tables, similarity_threshold, detected_relationships,
          relationship_graph, call, ret>>

-----------------------------------------------------------------------------
(* Bounds of the model *)

MaxTables == 3
MaxFks == 2
MaxRels == 2
MaxQualified == 2
MaxConfigTables == 2
MaxSteps == 3
MaxDepthRels == 3

-----------------------------------------------------------------------------
(* Strings *)

UpperChars == <<"A","B","C","D","E","F","G","H","I","J","K","L","M",
                "N","O","P","Q","R","S","T","U","V","W","X","Y","Z">>
LowerChars == <<"a","b","c","d","e","f","g","h","i","j","k","l","m",
                "n","o","p","q","r","s","t","u","v","w","x","y","z">>

IsUpper(c) == \E i \in 1..26 : UpperChars[i] = c
IsLower(c) == \E i \in 1..26 : LowerChars[i] = c

LowerChar(c) ==
    IF IsUpper(c) THEN LowerChars[CHOOSE i \in 1..26 : UpperChars[i] = c] ELSE c

\* str.lower()
Lower(s) == [i \in 1..Len(s) |-> LowerChar(s[i])]

\* str.endswith / str.startswith
EndsWith(s, suffix) ==
    /\ Len(s) >= Len(suffix)
    /\ SubSeq(s, Len(s) - Len(suffix) + 1, Len(s)) = suffix

StartsWith(s, prefix) ==
    /\ Len(s) >= Len(prefix)
    /\ SubSeq(s, 1, Len(prefix)) = prefix

\* needle in s
Contains(s, needle) ==
    \E i \in 1..(Len(s) + 1) :
        /\ i + Len(needle) - 1 <= Len(s)
        /\ SubSeq(s, i, i + Len(needle) - 1) = needle

\* s.split('(')[0]
BeforeParen(s) ==
    IF \E i \in 1..Len(s) : s[i] = "("
    THEN SubSeq(s, 1, (CHOOSE i \in 1..Len(s) :
                          /\ s[i] = "("
                          /\ \A j \in 1..(i-1) : s[j] # "(") - 1)
    ELSE s

\* str.strip() for blanks
RECURSIVE Strip(_)
Strip(s) ==
    IF s = <<>> THEN s
    ELSE IF Head(s) = " " THEN Strip(Tail(s))
    ELSE IF s[Len(s)] = " " THEN Strip(SubSeq(s, 1, Len(s) - 1))
    ELSE s

\* Python's None where a string is expected (no string of characters equals it)
None == <<"None">>

\* Python's None where an object is expected
NoneObj == [kind |-> "None"]

-----------------------------------------------------------------------------
(* Rational scores: <<numerator, denominator>>, denominator > 0 *)

RatGE(p, q) == p[1] * q[2] >= q[1] * p[2]
RatGT(p, q) == p[1] * q[2] > q[1] * p[2]
RatEQ(p, q) == p[1] * q[2] = q[1] * p[2]

-----------------------------------------------------------------------------
(* Sequence helpers *)

RECURSIVE Flatten(_)
Flatten(ss) == IF ss = <<>> THEN <<>> ELSE Head(ss) \o Flatten(Tail(ss))

Range(s) == {s[i] : i \in 1..Len(s)}

-----------------------------------------------------------------------------
(* RelationshipAnalyzer *)

HIGH == "high"
MEDIUM == "medium"
LOW == "low"

\* DetectedRelationship(...)
Rel(st, sc, tt, tc, conf, method) ==
    [source_table |-> st, source_column |-> sc,
     target_table |-> tt, target_column |-> tc,
     confidence |-> conf, detection_method |-> method]

\* the patterns of _extract_table_name_from_column, matched with re.IGNORECASE;
\* the captured group or None
MatchGroup(column_name) ==
    LET n == Len(column_name)
        low == Lower(column_name)
    IN  IF n >= 4 /\ EndsWith(low, <<"_","i","d">>)
            THEN SubSeq(column_name, 1, n - 3)
        ELSE IF n >= 4 /\ EndsWith(low, <<"_","f","k">>)
            THEN SubSeq(column_name, 1, n - 3)
        ELSE IF n >= 3 /\ EndsWith(low, <<"i","d">>)
            THEN SubSeq(column_name, 1, n - 2)
        ELSE IF n >= 4 /\ StartsWith(low, <<"f","k","_">>)
            THEN SubSeq(column_name, 4, n)
        ELSE IF n >= 4 /\ StartsWith(low, <<"i","d","_">>)
            THEN SubSeq(column_name, 4, n)
        ELSE None

\* re.sub(r'([a-z])([A-Z])', r'\1_\2', name)
RECURSIVE CamelToSnake(_)
CamelToSnake(s) ==
    IF Len(s) < 2 THEN s
    ELSE IF IsLower(s[1]) /\ IsUpper(s[2])
        THEN <<s[1], "_">> \o CamelToSnake(Tail(s))
        ELSE <<s[1]>> \o CamelToSnake(Tail(s))

_normalize_table_name(name) ==
    LET n == Lower(CamelToSnake(name))
    IN  IF ~EndsWith(n, <<"s">>) THEN n \o <<"s">> ELSE n

_extract_table_name_from_column(column_name) ==
    LET potential == MatchGroup(column_name)
    IN  IF potential # None THEN _normalize_table_name(potential) ELSE None

\* table_lookup = {t.name: t for t in metadata.tables}: the last table of a name
InLookup(tbls, name) == \E i \in 1..Len(tbls) : tbls[i].name = name

Lookup(tbls, name) ==
    tbls[CHOOSE i \in 1..Len(tbls) :
            /\ tbls[i].name = name
            /\ \A j \in (i+1)..Len(tbls) : tbls[j].name # name]

\* the first column of the table that is a primary key (named id, if id_only)
FirstPk(table, id_only) ==
    LET Fits(col) == /\ col.is_primary_key
                     /\ id_only => Lower(col.name) = <<"i","d">>
        found == {i \in 1..Len(table.columns) : Fits(table.columns[i])}
    IN  IF found = {} THEN None
        ELSE table.columns[CHOOSE i \in found : \A j \in found : i <= j].name

_find_matching_pk_column(table) ==
    IF FirstPk(table, TRUE) # None THEN FirstPk(table, TRUE)
    ELSE FirstPk(table, FALSE)

T_integer == <<"i","n","t","e","g","e","r">>
T_bigint == <<"b","i","g","i","n","t">>
T_varchar == <<"v","a","r","c","h","a","r">>
T_text == <<"t","e","x","t">>
T_uuid == <<"u","u","i","d">>

\* integer, int, int4, smallint, bigint, int8, serial, bigserial
int_types ==
    {T_integer, <<"i","n","t">>,
     <<"i","n","t","4">>,
     <<"s","m","a","l","l","i","n","t">>, T_bigint,
     <<"i","n","t","8">>, <<"s","e","r","i","a","l">>,
     <<"b","i","g","s","e","r","i","a","l">>}

\* varchar, character varying, text, char, character, name
text_types ==
    {T_varchar,
     <<"c","h","a","r","a","c","t","e","r"," ","v","a","r","y","i","n","g">>,
     T_text, <<"c","h","a","r">>,
     <<"c","h","a","r","a","c","t","e","r">>,
     <<"n","a","m","e">>}

BaseType(data_type) == Strip(BeforeParen(Lower(data_type)))

_types_compatible(type1, type2) ==
    LET t1 == BaseType(type1)
        t2 == BaseType(type2)
    IN  \/ t1 = t2
        \/ t1 \in int_types /\ t2 \in int_types
        \/ t1 \in text_types /\ t2 \in text_types
        \/ Contains(t1, T_uuid) /\ Contains(t2, T_uuid)

_is_integer_type(data_type) == BaseType(data_type) \in int_types

\* difflib.SequenceMatcher.find_longest_match on whole strings: <<i, j, k>>,
\* the longest common block, the earliest in a and then the earliest in b
LongestMatch(a, b) ==
    LET Blocks == {ijk \in (1..Len(a)) \X (1..Len(b)) \X (1..Len(a)) :
                      /\ ijk[1] + ijk[3] - 1 <= Len(a)
                      /\ ijk[2] + ijk[3] - 1 <= Len(b)
                      /\ SubSeq(a, ijk[1], ijk[1] + ijk[3] - 1)
                            = SubSeq(b, ijk[2], ijk[2] + ijk[3] - 1)}
    IN  IF Blocks = {} THEN <<1, 1, 0>>
        ELSE CHOOSE m \in Blocks :
                \A o \in Blocks :
                    \/ m[3] > o[3]
                    \/ m[3] = o[3] /\ m[1] < o[1]
                    \/ m[3] = o[3] /\ m[1] = o[1] /\ m[2] <= o[2]

\* the sum of the sizes of SequenceMatcher.get_matching_blocks()
RECURSIVE Matches(_, _)
Matches(a, b) ==
    IF a = <<>> \/ b = <<>> THEN 0
    ELSE LET m == LongestMatch(a, b)
         IN  IF m[3] = 0 THEN 0
             ELSE m[3]
                  + Matches(SubSeq(a, 1, m[1] - 1), SubSeq(b, 1, m[2] - 1))
                  + Matches(SubSeq(a, m[1] + m[3], Len(a)),
                            SubSeq(b, m[2] + m[3], Len(b)))

\* SequenceMatcher(None, a, b).ratio() = 2.0 * matches / (len(a) + len(b))
Ratio(a, b) ==
    IF Len(a) + Len(b) = 0 THEN <<1, 1>>
    ELSE <<2 * Matches(a, b), Len(a) + Len(b)>>

\* name_sim * 0.5 + (0.3 if compatible) + (0.2 if both integer), as a rational
_calculate_column_similarity(col1, col2) ==
    LET name_sim == Ratio(Lower(col1.name), Lower(col2.name))
        compat == IF _types_compatible(col1.data_type, col2.data_type)
                  THEN 3 ELSE 0
        ints == IF _is_integer_type(col1.data_type)
                   /\ _is_integer_type(col2.data_type)
                THEN 2 ELSE 0
    IN  <<5 * name_sim[1] + (compat + ints) * name_sim[2], 10 * name_sim[2]>>

-----------------------------------------------------------------------------
(* Schemas the analyzer is run on *)

N_id == <<"i","d">>
N_name == <<"n","a","m","e">>
N_user_id == <<"u","s","e","r","_","i","d">>
N_userId == <<"u","s","e","r","I","d">>
N_amount == <<"a","m","o","u","n","t">>
N_category_id == <<"c","a","t","e","g","o","r","y","_","i","d">>
N_code == <<"c","o","d","e">>
N_users == <<"u","s","e","r","s">>
N_orders == <<"o","r","d","e","r","s">>
N_products == <<"p","r","o","d","u","c","t","s">>
N_categories == <<"c","a","t","e","g","o","r","i","e","s">>
N_currencies == <<"c","u","r","r","e","n","c","i","e","s">>
N_accounts == <<"a","c","c","o","u","n","t","s">>
T_numeric == <<"n","u","m","e","r","i","c">>
T_VARCHAR3 == <<"V","A","R","C","H","A","R","(","3",")">>

\* ColumnInfo(name, data_type, is_primary_key)
Col(name, data_type, pk) ==
    [name |-> name, data_type |-> data_type, is_primary_key |-> pk]

\* ForeignKeyInfo(column, references_table, references_column)
Fk(column, rt, rc) ==
    [column |-> column, references_table |-> rt, references_column |-> rc]

\* the tables a schema is drawn from, each with the foreign keys it may declare
Menu ==
    {[name |-> N_users,
      columns |-> <<Col(N_id, T_integer, TRUE), Col(N_name, T_varchar, FALSE)>>,
      fks |-> {Fk(N_id, N_accounts, N_id)}],
     [name |-> N_orders,
      columns |-> <<Col(N_id, T_integer, TRUE),
                    Col(N_user_id, T_integer, FALSE),
                    Col(N_amount, T_numeric, FALSE)>>,
      fks |-> {Fk(N_user_id, N_users, N_id), Fk(N_user_id, N_accounts, N_id)}],
     [name |-> N_products,
      columns |-> <<Col(N_id, T_integer, TRUE),
                    Col(N_category_id, T_integer, FALSE),
                    Col(N_userId, T_bigint, FALSE),
                    Col(N_code, T_VARCHAR3, FALSE)>>,
      fks |-> {Fk(N_category_id, N_categories, N_id)}],
     [name |-> N_categories,
      columns |-> <<Col(N_id, T_integer, TRUE), Col(N_name, T_varchar, FALSE)>>,
      fks |-> {}],
     [name |-> N_currencies,
      columns |-> <<Col(N_code, T_varchar, TRUE), Col(N_name, T_text, FALSE)>>,
      fks |-> {}]}

MenuColumns == UNION {Range(m.columns) : m \in Menu}

\* the values of the pure string functions on the names of the menu, computed
\* once (@@ makes each an explicit table)
SimilarityOf ==
    [p \in MenuColumns \X MenuColumns |->
        _calculate_column_similarity(p[1], p[2])] @@ <<>>

TableNameOf ==
    [n \in {c.name : c \in MenuColumns} |->
        _extract_table_name_from_column(n)] @@ <<>>

\* existing_pairs = {(r.source_table, r.source_column) for r in existing_rels}
Pairs(rels) == {<<rels[i].source_table, rels[i].source_column>> : i \in 1..Len(rels)}

\* an FK tier that leaves out the foreign keys to tables outside the schema
_extract_fk_in_schema(tbls) ==
    Flatten([i \in 1..Len(tbls) |->
        SelectSeq([j \in 1..Len(tbls[i].foreign_keys) |->
            LET fk == tbls[i].foreign_keys[j]
            IN  Rel(tbls[i].name, fk.column, fk.references_table,
                    fk.references_column, HIGH, "foreign_key_constraint")],
            LAMBDA rel : InLookup(tbls, rel.target_table))])

_extract_fk_relationships(tbls) ==
    Flatten([i \in 1..Len(tbls) |->
        [j \in 1..Len(tbls[i].foreign_keys) |->
            LET fk == tbls[i].foreign_keys[j]
            IN  Rel(tbls[i].name, fk.column, fk.references_table,
                    fk.references_column, HIGH, "foreign_key_constraint")]])

\* a naming tier that does not skip the pairs the FK tier claimed
NamingForColumnNoSkip(tbls, table, column, existing_pairs) ==
    IF column.is_primary_key THEN <<>>
    ELSE LET potential_table == TableNameOf[column.name]
         IN  IF potential_table # None /\ InLookup(tbls, potential_table)
             THEN <<Rel(table.name, column.name, potential_table,
                        _find_matching_pk_column(Lookup(tbls, potential_table)),
                        MEDIUM, "naming_convention")>>
             ELSE <<>>

\* the body of the column loop of _detect_naming_relationships: the
\* relationships (none or one) appended for one column
NamingForColumn(tbls, table, column, existing_pairs) ==
    IF <<table.name, column.name>> \in existing_pairs THEN <<>>
    ELSE IF column.is_primary_key THEN <<>>
    ELSE LET potential_table == TableNameOf[column.name]
         IN  IF potential_table # None /\ InLookup(tbls, potential_table)
             THEN LET target_column ==
                          _find_matching_pk_column(Lookup(tbls, potential_table))
                  IN  IF target_column # None /\ target_column # <<>>
                      THEN <<Rel(table.name, column.name, potential_table,
                                 target_column, MEDIUM, "naming_convention")>>
                      ELSE <<>>
             ELSE <<>>

_detect_naming_relationships(tbls, existing_rels) ==
    Flatten([i \in 1..Len(tbls) |->
        Flatten([j \in 1..Len(tbls[i].columns) |->
            NamingForColumn(tbls, tbls[i], tbls[i].columns[j],
                            Pairs(existing_rels))])])

\* the primary-key columns of the other tables, in the order the two inner
\* loops of _detect_similarity_relationships visit them
Candidates(tbls, table) ==
    Flatten([i \in 1..Len(tbls) |->
        IF tbls[i].name = table.name THEN <<>>
        ELSE LET pks == SelectSeq(tbls[i].columns,
                                  LAMBDA c : c.is_primary_key)
             IN  [j \in 1..Len(pks) |-> [table |-> tbls[i].name, col |-> pks[j]]]])

\* an update that also replaces the best match by a candidate of equal score
BestStepLast(best, column, cand, threshold) ==
    LET score == SimilarityOf[<<column, cand.col>>]
    IN  IF RatGE(score, threshold) /\ RatGE(score, best.score)
        THEN [match |-> <<cand.table, cand.col.name>>, score |-> score]
        ELSE best

\* the update of best_match / best_score by one candidate
BestStep(best, column, cand, threshold) ==
    LET score == SimilarityOf[<<column, cand.col>>]
    IN  IF RatGE(score, threshold) /\ RatGT(score, best.score)
        THEN [match |-> <<cand.table, cand.col.name>>, score |-> score]
        ELSE best

RECURSIVE BestMatch(_, _, _, _)
BestMatch(best, column, cands, threshold) ==
    IF cands = <<>> THEN best
    ELSE BestMatch(BestStep(best, column, Head(cands), threshold),
                   column, Tail(cands), threshold)

\* a similarity tier that does not skip the pairs claimed before it
SimilarityForColumnNoSkip(tbls, table, column, existing_pairs, threshold) ==
    IF column.is_primary_key THEN <<>>
    ELSE LET best == BestMatch([match |-> None, score |-> <<0, 1>>], column,
                               Candidates(tbls, table), threshold)
         IN  IF best.match # None
             THEN <<Rel(table.name, column.name, best.match[1], best.match[2],
                        LOW, "similarity_analysis")>>
             ELSE <<>>

\* the body of the column loop of _detect_similarity_relationships
SimilarityForColumn(tbls, table, column, existing_pairs, threshold) ==
    IF <<table.name, column.name>> \in existing_pairs THEN <<>>
    ELSE IF column.is_primary_key THEN <<>>
    ELSE LET best == BestMatch([match |-> None, score |-> <<0, 1>>], column,
                               Candidates(tbls, table), threshold)
         IN  IF best.match # None
             THEN <<Rel(table.name, column.name, best.match[1], best.match[2],
                        LOW, "similarity_analysis")>>
             ELSE <<>>

_detect_similarity_relationships(tbls, existing_rels, threshold) ==
    Flatten([i \in 1..Len(tbls) |->
        Flatten([j \in 1..Len(tbls[i].columns) |->
            SimilarityForColumn(tbls, tbls[i], tbls[i].columns[j],
                                Pairs(existing_rels), threshold)])])

\* the relationship list analyze() stores in metadata.detected_relationships
AnalyzeRelationships(tbls, threshold) ==
    LET fk_relationships == _extract_fk_relationships(tbls)
        naming_relationships ==
            _detect_naming_relationships(tbls, fk_relationships)
        relationships == fk_relationships \o naming_relationships
    IN  relationships
        \o _detect_similarity_relationships(tbls, relationships, threshold)

\* the sequences of at most n pairwise distinct elements of S
DistinctSeqs(S, n) ==
    UNION {{q \in [1..k -> S] : \A i, j \in 1..k : i # j => q[i] # q[j]}
           : k \in 0..n}

\* TableInfo(name, columns, foreign_keys)
TableChoices ==
    UNION {{[name |-> m.name, columns |-> m.columns, foreign_keys |-> fs]
            : fs \in DistinctSeqs(m.fks, MaxFks)} : m \in Menu}

Schemas ==
    UNION {{q \in [1..k -> TableChoices] :
               \A i, j \in 1..k : i # j => q[i].name # q[j].name}
           : k \in 1..MaxTables}

Thresholds == {<<0, 1>>, <<4, 5>>, <<1, 1>>}

NoGraph == [nodes |-> {}, edges |-> <<>>]

\* a clear that leaves the graph as it is
clear_nothing(g) == g

\* self.relationship_graph.clear()
clear(g) == NoGraph

\* the add_edge of RelationshipAnalyzer._build_relationship_graph: one edge
\* per (source_table, target_table), a later relationship replaces the
\* attributes of an earlier one
RECURSIVE AnalyzerAddEdges(_, _)
AnalyzerAddEdges(g, rels) ==
    IF rels = <<>> THEN g
    ELSE LET rel == Head(rels)
         IN  AnalyzerAddEdges(
                 [nodes |-> g.nodes \cup {rel.source_table, rel.target_table},
                  edges |-> (<<rel.source_table, rel.target_table>> :>
                                [source_column |-> rel.source_column,
                                 target_column |-> rel.target_column,
                                 confidence |-> rel.confidence,
                                 method |-> rel.detection_method])
                            @@ g.edges],
                 Tail(rels))

\* RelationshipAnalyzer._build_relationship_graph(relationships)
AnalyzerGraph(g, rels) == AnalyzerAddEdges(clear(g), rels)

\* the metadata a next analyze() call may be given: the same tables, or the
\* tables without the first or without the last
NextTables(tbls) ==
    {tbls} \cup (IF Len(tbls) > 1
                 THEN {Tail(tbls), SubSeq(tbls, 1, Len(tbls) - 1)}
                 ELSE {})

-----------------------------------------------------------------------------
(* PipelineBuilder: the relationship graph and find_join_path *)

\* confidence to weight mapping of _build_relationship_graph
Weight(confidence) ==
    CASE confidence = HIGH -> 1
      [] confidence = MEDIUM -> 2
      [] confidence = LOW -> 3
      [] OTHER -> 3

\* nx.DiGraph.add_edge: at most one edge per (u, v), the attributes of a
\* later add_edge replace those of an earlier one
AddEdge(g, u, v, data) ==
    [nodes |-> g.nodes \cup {u, v}, edges |-> (<<u, v>> :> data) @@ g.edges]

\* a graph build that adds the forward edge only
AddRelationshipForwardOnly(g, rel) ==
    AddEdge(g, rel.source_table, rel.target_table,
            [source_column |-> rel.source_column,
             target_column |-> rel.target_column,
             confidence |-> rel.confidence,
             weight |-> Weight(rel.confidence)])

\* the two add_edge calls of the loop body of _build_relationship_graph
AddRelationship(g, rel) ==
    LET weight == Weight(rel.confidence)
        forward == AddEdge(g, rel.source_table, rel.target_table,
                           [source_column |-> rel.source_column,
                            target_column |-> rel.target_column,
                            confidence |-> rel.confidence,
                            weight |-> weight])
    IN  AddEdge(forward, rel.target_table, rel.source_table,
                [source_column |-> rel.target_column,
                 target_column |-> rel.source_column,
                 confidence |-> rel.confidence,
                 weight |-> weight])

RECURSIVE AddRelationships(_, _)
AddRelationships(g, rels) ==
    IF rels = <<>> THEN g
    ELSE AddRelationships(AddRelationship(g, Head(rels)), Tail(rels))

\* a graph build that does not add the tables as nodes
_build_graph_without_tables(tbls, rels) ==
    AddRelationships([nodes |-> {}, edges |-> <<>>], rels)

_build_relationship_graph(tbls, rels) ==
    AddRelationships([nodes |-> {tbls[i].name : i \in 1..Len(tbls)},
                      edges |-> <<>>], rels)

HasEdge(g, u, v) == <<u, v>> \in DOMAIN g.edges

\* the walks without repeated node from from_table to to_table
SimplePaths(g, from_table, to_table) ==
    {p \in DistinctSeqs(g.nodes, Cardinality(g.nodes)) :
        /\ Len(p) >= 1
        /\ p[1] = from_table
        /\ p[Len(p)] = to_table
        /\ \A i \in 1..(Len(p) - 1) : HasEdge(g, p[i], p[i+1])}

\* a cost that counts the hops of the path
PathHops(g, p) == Len(p) - 1

\* dijkstra_path_length: the sum of the weights of the edges of the path
RECURSIVE PathCost(_, _)
PathCost(g, p) ==
    IF Len(p) < 2 THEN 0
    ELSE g.edges[<<p[1], p[2]>>].weight + PathCost(g, Tail(p))

\* the paths nx.dijkstra_path may return: the minimum-weight ones (which of
\* several paths of equal weight it returns is left open)
DijkstraPaths(g, from_table, to_table) ==
    LET all == SimplePaths(g, from_table, to_table)
    IN  {p \in all : \A q \in all : PathCost(g, p) <= PathCost(g, q)}

\* JoinCondition(left_table, left_column, right_table, right_column)
JoinCondition(lt, lc, rt, rc) ==
    [left_table |-> lt, left_column |-> lc,
     right_table |-> rt, right_column |-> rc, operator |-> <<"=">>]

\* the JoinPath built from a path of the graph
JoinPathOf(g, path) ==
    [kind |-> "JoinPath",
     tables |-> path,
     joins |-> [i \in 1..(Len(path) - 1) |->
                  LET edge_data == g.edges[<<path[i], path[i+1]>>]
                  IN  JoinCondition(path[i], edge_data.source_column,
                                    path[i+1], edge_data.target_column)],
     total_cost |-> PathCost(g, path)]

\* an exception leaving the operation
Raise(error) == [kind |-> "raise", error |-> error]

\* a find_join_path that returns the path whatever its length
find_join_path_any_length(g, from_table, to_table) ==
    IF from_table \notin g.nodes THEN {Raise("NodeNotFound")}
    ELSE LET paths == DijkstraPaths(g, from_table, to_table)
         IN  IF paths = {} THEN {NoneObj} ELSE {JoinPathOf(g, p) : p \in paths}

\* what find_join_path(from_table, to_table) may return or raise:
\* nx.dijkstra_path raises NodeNotFound for a source that is no node of the
\* graph, which find_join_path does not catch, and NetworkXNoPath for a target
\* it cannot reach (a target that is no node included), which it does
find_join_path(g, from_table, to_table) ==
    IF from_table \notin g.nodes THEN {Raise("NodeNotFound")}
    ELSE LET paths == DijkstraPaths(g, from_table, to_table)
         IN  IF paths = {} THEN {NoneObj}
             ELSE {IF Len(p) < 2 THEN NoneObj ELSE JoinPathOf(g, p)
                      : p \in paths}

\* a sort that leaves the list in the order it was built
InsertLast(sorted, path) == Append(sorted, path)

\* paths.sort(key=lambda p: p.total_cost), one insertion of the stable sort:
\* the path goes after the paths that cost no more
InsertSorted(sorted, path) ==
    LET n == Cardinality({k \in 1..Len(sorted) :
                             sorted[k].total_cost <= path.total_cost})
    IN  SubSeq(sorted, 1, n) \o <<path>> \o SubSeq(sorted, n + 1, Len(sorted))

RECURSIVE SortByCost(_, _)
SortByCost(sorted, paths) ==
    IF paths = <<>> THEN sorted
    ELSE SortByCost(InsertSorted(sorted, Head(paths)), Tail(paths))

\* what the loop of find_all_join_paths may do from table i on: extend the
\* list of paths (kind "paths") or let an exception of find_join_path through
RECURSIVE CollectPaths(_, _, _, _, _, _)
CollectPaths(g, tbls, from_table, max_depth, i, paths) ==
    IF i > Len(tbls) THEN {[kind |-> "paths", paths |-> paths]}
    ELSE IF tbls[i].name = from_table
        THEN CollectPaths(g, tbls, from_table, max_depth, i + 1, paths)
    ELSE UNION {
            IF path.kind = "raise" THEN {path}
            ELSE CollectPaths(g, tbls, from_table, max_depth, i + 1,
                    IF /\ path.kind = "JoinPath"
                       /\ Len(path.tables) <= max_depth + 1
                    THEN Append(paths, path) ELSE paths)
            : path \in find_join_path(g, from_table, tbls[i].name)}

\* a find_all_join_paths that keeps the paths of fewer than max_depth joins
find_all_join_paths_fewer(g, tbls, from_table, max_depth) ==
    {IF c.kind = "raise" THEN c
     ELSE [kind |-> "list", items |-> SortByCost(<<>>, c.paths)]
        : c \in CollectPaths(g, tbls, from_table, max_depth - 1, 1, <<>>)}

\* what find_all_join_paths(from_table, max_depth) may return or raise
find_all_join_paths(g, tbls, from_table, max_depth) ==
    {IF c.kind = "raise" THEN c
     ELSE [kind |-> "list", items |-> SortByCost(<<>>, c.paths)]
        : c \in CollectPaths(g, tbls, from_table, max_depth, 1, <<>>)}

-----------------------------------------------------------------------------
(* Pipeline models: the SQL text *)

RECURSIVE JoinText(_, _)
\* sep.join(parts)
JoinText(sep, parts) ==
    IF parts = <<>> THEN <<>>
    ELSE IF Len(parts) = 1 THEN parts[1]
    ELSE parts[1] \o sep \o JoinText(sep, Tail(parts))

S_dot == <<".">>
S_space == <<" ">>
S_underscore == <<"_">>
S_newline == <<"\n">>
S_AS == <<" ","A","S"," ">>
S_AND == <<" ","A","N","D"," ">>
S_ON == <<" ","O","N"," ">>
S_JOIN == <<"J","O","I","N">>
S_FROM == <<"F","R","O","M"," ">>
S_SELECT == <<"S","E","L","E","C","T"," ">>
S_SELECT_STAR == <<"S","E","L","E","C","T"," ","*">>
S_select_sep == <<",","\n"," "," "," "," "," "," "," ">>
LEFT == <<"L","E","F","T">>

\* JoinCondition.to_sql
JoinConditionSql(jc) ==
    jc.left_table \o S_dot \o jc.left_column \o S_space \o jc.operator
    \o S_space \o jc.right_table \o S_dot \o jc.right_column

\* ColumnMapping(source_table, source_column, target_name)
ColumnMapping(st, sc, target_name) ==
    [source_table |-> st, source_column |-> sc, target_name |-> target_name]

\* ColumnMapping.to_sql, without alias, transformation or aggregation
ColumnMappingSql(m) ==
    LET expr == m.source_table \o S_dot \o m.source_column
    IN  IF m.target_name # m.source_column
        THEN expr \o S_AS \o m.target_name
        ELSE expr

\* the table named by the JOIN clause of a join step
JoinedTable(step) == step.join_conditions[1].right_table

\* PipelineStep.to_sql_fragment for the join steps
to_sql_fragment(step) ==
    IF step.step_type = "join" /\ step.join_conditions # <<>>
    THEN LET join_clause == IF step.join_type # None
                            THEN step.join_type \o S_space \o S_JOIN
                            ELSE S_JOIN
             conditions ==
                 JoinText(S_AND, [i \in 1..Len(step.join_conditions) |->
                                    JoinConditionSql(step.join_conditions[i])])
         IN  join_clause \o S_space \o JoinedTable(step) \o S_ON \o conditions
    ELSE <<>>

\* a to_sql that renders the join steps only
to_sql_joins_only(pipeline) ==
    IF pipeline.source_tables = <<>> THEN <<>>
    ELSE LET select_parts ==
                 [i \in 1..Len(pipeline.output_columns) |->
                    ColumnMappingSql(pipeline.output_columns[i])]
             select_clause ==
                 IF select_parts # <<>>
                 THEN S_SELECT \o JoinText(S_select_sep, select_parts)
                 ELSE S_SELECT_STAR
             from_clause == S_FROM \o pipeline.source_tables[1]
             join_steps == SelectSeq(pipeline.steps,
                                     LAMBDA st : st.step_type = "join")
             join_clauses == [i \in 1..Len(join_steps) |->
                                to_sql_fragment(join_steps[i])]
         IN  JoinText(S_newline, <<select_clause, from_clause>> \o join_clauses)

\* the group_by_clause after the loop over the steps: that of the last
\* aggregate step with group_by_columns
RECURSIVE GroupByClause(_, _)
GroupByClause(steps, group_by_clause) ==
    IF steps = <<>> THEN group_by_clause
    ELSE GroupByClause(Tail(steps),
             IF /\ Head(steps).step_type = "aggregate"
                /\ Head(steps).group_by_columns # <<>>
             THEN <<"G","R","O","U","P"," ","B","Y"," ">>
                  \o JoinText(<<",", " ">>, Head(steps).group_by_columns)
             ELSE group_by_clause)

\* Pipeline.to_sql
to_sql(pipeline) ==
    IF pipeline.source_tables = <<>> THEN <<>>
    ELSE LET select_parts ==
                 [i \in 1..Len(pipeline.output_columns) |->
                    ColumnMappingSql(pipeline.output_columns[i])]
             select_clause ==
                 IF select_parts # <<>>
                 THEN S_SELECT \o JoinText(S_select_sep, select_parts)
                 ELSE S_SELECT_STAR
             from_clause == S_FROM \o pipeline.source_tables[1]
             join_steps == SelectSeq(pipeline.steps,
                                     LAMBDA st : st.step_type = "join")
             join_clauses == [i \in 1..Len(join_steps) |->
                                to_sql_fragment(join_steps[i])]
             filter_steps ==
                 SelectSeq(pipeline.steps,
                     LAMBDA st : /\ st.step_type = "filter"
                                 /\ st.filter_condition \notin {None, <<>>})
             filter_clauses == [i \in 1..Len(filter_steps) |->
                                  filter_steps[i].filter_condition]
             group_by_clause == GroupByClause(pipeline.steps, <<>>)
         IN  JoinText(S_newline,
                 <<select_clause, from_clause>> \o join_clauses
                 \o (IF filter_clauses # <<>>
                     THEN <<<<"W","H","E","R","E"," ">>
                            \o JoinText(S_AND, filter_clauses)>>
                     ELSE <<>>)
                 \o (IF group_by_clause # <<>> THEN <<group_by_clause>>
                     ELSE <<>>))

-----------------------------------------------------------------------------
(* PipelineBuilder: create_pipeline, create_star_schema_pipeline,
   generate_datasets *)

\* the join path of one iteration of create_pipeline: forward, else reverse,
\* else the ValueError; an exception of find_join_path propagates
StepPaths(g, base_table, target_table) ==
    LET forward == find_join_path(g, base_table, target_table)
    IN  IF forward # {NoneObj} THEN forward
        ELSE LET reverse == find_join_path(g, target_table, base_table)
             IN  IF reverse # {NoneObj} THEN reverse
                 ELSE {Raise("ValueError")}

\* PipelineStep(step_id=f"step_{i}", step_type="join", ...)
JoinStep(i, target_table, join_type, join_path) ==
    [step_id |-> i, step_name |-> target_table, step_type |-> "join",
     join_type |-> join_type, join_conditions |-> join_path.joins]

\* what the join loop of create_pipeline may do from iteration i on: build a
\* list of steps (kind "steps") or raise in the first iteration that fails
RECURSIVE JoinSteps(_, _, _, _)
JoinSteps(g, source_tables, join_type, i) ==
    IF i > Len(source_tables) - 1 THEN {[kind |-> "steps", steps |-> <<>>]}
    ELSE UNION {
            IF jp.kind = "raise" THEN {jp}
            ELSE {IF rest.kind = "raise" THEN rest
                  ELSE [kind |-> "steps",
                        steps |-> <<JoinStep(i, source_tables[i+1],
                                             join_type, jp)>> \o rest.steps]
                     : rest \in JoinSteps(g, source_tables, join_type, i + 1)}
            : jp \in StepPaths(g, source_tables[i], source_tables[i+1])}

\* the column mappings of create_pipeline (all columns of every source table
\* found in the table lookup)
OutputColumns(tbls, source_tables) ==
    Flatten([k \in 1..Len(source_tables) |->
        LET table_name == source_tables[k]
        IN  IF ~InLookup(tbls, table_name) THEN <<>>
            ELSE LET table == Lookup(tbls, table_name)
                 IN  [j \in 1..Len(table.columns) |->
                        LET col == table.columns[j]
                        IN  ColumnMapping(table_name, col.name,
                                IF Len(source_tables) > 1
                                THEN table_name \o S_underscore \o col.name
                                ELSE col.name)]])

\* a create_pipeline without the check of the number of source tables
create_pipeline_unchecked(g, tbls, source_tables, join_type) ==
    {IF st.kind = "raise" THEN st
     ELSE [kind |-> "Pipeline",
           source_tables |-> source_tables,
           steps |-> st.steps,
           output_columns |-> OutputColumns(tbls, source_tables)]
        : st \in JoinSteps(g, source_tables, join_type, 1)}

\* what create_pipeline(name, source_tables, join_type) may return or raise
create_pipeline(g, tbls, source_tables, join_type) ==
    IF Len(source_tables) < 2 THEN {Raise("ValueError")}
    ELSE {IF st.kind = "raise" THEN st
          ELSE [kind |-> "Pipeline",
                source_tables |-> source_tables,
                steps |-> st.steps,
                output_columns |-> OutputColumns(tbls, source_tables)]
             : st \in JoinSteps(g, source_tables, join_type, 1)}

\* related_tables of create_star_schema_pipeline
RECURSIVE RelatedTables(_, _, _)
RelatedTables(related_tables, fact_table, rels) ==
    IF rels = <<>> THEN related_tables
    ELSE LET rel == Head(rels)
         IN  RelatedTables(
                 IF /\ rel.source_table = fact_table
                    /\ rel.target_table \notin Range(related_tables)
                 THEN Append(related_tables, rel.target_table)
                 ELSE related_tables,
                 fact_table, Tail(rels))

create_star_schema_pipeline(g, tbls, rels, fact_table) ==
    LET related_tables == RelatedTables(<<fact_table>>, fact_table, rels)
    IN  IF Len(related_tables) < 2 THEN {Raise("ValueError")}
        ELSE create_pipeline(g, tbls, related_tables, LEFT)

\* the characters of names, in code-point order
CharOrder == <<"0","1","2","3","4","5","6","7","8","9">> \o UpperChars
             \o <<"_">> \o LowerChars

CharRank(c) == CHOOSE i \in 1..Len(CharOrder) : CharOrder[i] = c

\* a <= b for Python strings
RECURSIVE StrLE(_, _)
StrLE(a, b) ==
    IF a = <<>> THEN TRUE
    ELSE IF b = <<>> THEN FALSE
    ELSE IF Head(a) = Head(b) THEN StrLE(Tail(a), Tail(b))
    ELSE CharRank(Head(a)) < CharRank(Head(b))

\* a pair key that keeps the direction of the relationship
pair_key_directed(rel) == <<rel.source_table, rel.target_table>>

\* pair_key = tuple(sorted([rel.source_table, rel.target_table]))
pair_key(rel) ==
    IF StrLE(rel.source_table, rel.target_table)
    THEN <<rel.source_table, rel.target_table>>
    ELSE <<rel.target_table, rel.source_table>>

S_dataset == <<"_","d","a","t","a","s","e","t">>

\* Dataset(name, columns, creation_reason) of generate_datasets
DatasetOf(rel, pipeline) ==
    [name |-> rel.source_table \o S_underscore \o rel.target_table \o S_dataset,
     columns |-> pipeline.output_columns,
     creation_reason |-> <<rel.source_table, rel.source_column,
                           rel.target_table, rel.target_column>>]

\* an except clause that catches nothing
CaughtNever(outcome) == FALSE

\* except Exception: the outcomes of the try block the handler catches
\* (ValueError and NodeNotFound are Exceptions)
Caught(outcome) == outcome.kind = "raise"

\* the loop of generate_datasets from relationship i on; attempts records the
\* source_tables of every create_pipeline call made, raised the exception that
\* left the loop, if any
RECURSIVE GenerateLoop(_, _, _, _, _)
GenerateLoop(g, tbls, rels, i, acc) ==
    IF i > Len(rels) \/ acc.raised # NoneObj THEN acc
    ELSE LET rel == rels[i]
         IN  IF rel.confidence # HIGH
                THEN GenerateLoop(g, tbls, rels, i + 1, acc)
             ELSE IF pair_key(rel) \in acc.processed_pairs
                THEN GenerateLoop(g, tbls, rels, i + 1, acc)
             ELSE LET source_tables == <<rel.source_table, rel.target_table>>
                      outcomes == create_pipeline(g, tbls, source_tables, LEFT)
                      pipeline == CHOOSE o \in outcomes : TRUE
                      ok == pipeline.kind = "Pipeline"
                  IN  GenerateLoop(g, tbls, rels, i + 1,
                        [processed_pairs |->
                             acc.processed_pairs \cup {pair_key(rel)},
                         attempts |-> Append(acc.attempts, source_tables),
                         datasets |-> IF ok
                                      THEN Append(acc.datasets,
                                                  DatasetOf(rel, pipeline))
                                      ELSE acc.datasets,
                         raised |-> IF ok \/ Caught(pipeline)
                                    THEN NoneObj ELSE pipeline])

\* what generate_datasets() returns (kind "datasets") or raises
generate_datasets(g, tbls, rels) ==
    LET done == GenerateLoop(g, tbls, rels, 1,
                    [processed_pairs |-> {}, attempts |-> <<>>,
                     datasets |-> <<>>, raised |-> NoneObj])
    IN  IF done.raised # NoneObj
        THEN done.raised @@ [attempts |-> done.attempts]
        ELSE [kind |-> "datasets", datasets |-> done.datasets,
              attempts |-> done.attempts]

\* a count of the relationships the table takes part in, as source or target
related_count_incident(table_name, rels) ==
    Cardinality({i \in 1..Len(rels) :
                    \/ rels[i].source_table = table_name
                    \/ rels[i].target_table = table_name})

\* related_count of get_join_recommendations: the relationships whose
\* source_table is the table
related_count(table_name, rels) ==
    Cardinality({i \in 1..Len(rels) : rels[i].source_table = table_name})

\* direct_relations of get_join_recommendations
direct_relations(table_name, rels) ==
    LET outgoing == SelectSeq(rels, LAMBDA r : r.source_table = table_name)
    IN  [k \in 1..Len(outgoing) |->
            [target |-> outgoing[k].target_table,
             via |-> <<outgoing[k].source_column, outgoing[k].target_column>>,
             confidence |-> outgoing[k].confidence]]

\* the recommendations (none or one) appended for one table
Recommendation(table, rels) ==
    IF related_count(table.name, rels) >= 2
    THEN <<[table |-> table.name, type |-> "hub_table",
            relations |-> direct_relations(table.name, rels)]>>
    ELSE IF related_count(table.name, rels) = 0
    THEN <<[table |-> table.name, type |-> "isolated_table"]>>
    ELSE <<>>

get_join_recommendations(tbls, rels) ==
    Flatten([i \in 1..Len(tbls) |-> Recommendation(tbls[i], rels)])

-----------------------------------------------------------------------------
(* Metadata a PipelineBuilder is constructed from *)

N_a == <<"a">>
N_b == <<"b">>
N_c == <<"c">>
N_x == <<"x">>
N_y == <<"y">>
N_z == <<"z">>
N_q == <<"q">>

\* every table has the primary key id and the columns the relationships of
\* RelMenu start from
BuilderColumns ==
    <<Col(N_id, T_integer, TRUE), Col(N_x, T_integer, FALSE),
      Col(N_y, T_integer, FALSE), Col(N_z, T_integer, FALSE)>>

BuilderTables ==
    <<[name |-> N_a, foreign_keys |-> <<>>, columns |-> BuilderColumns],
      [name |-> N_b, foreign_keys |-> <<>>, columns |-> BuilderColumns],
      [name |-> N_c, foreign_keys |-> <<>>, columns |-> BuilderColumns]>>

TableNames == {BuilderTables[i].name : i \in 1..Len(BuilderTables)}

MethodOf(confidence) ==
    CASE confidence = HIGH -> "foreign_key_constraint"
      [] confidence = MEDIUM -> "naming_convention"
      [] confidence = LOW -> "similarity_analysis"

ColumnOf(confidence) ==
    CASE confidence = HIGH -> N_x
      [] confidence = MEDIUM -> N_y
      [] confidence = LOW -> N_z

\* the detected relationships a list is drawn from
RelMenu ==
    {Rel(st[1], ColumnOf(conf), st[2], N_id, conf, MethodOf(conf)) :
        st \in {<<N_a, N_b>>, <<N_b, N_a>>, <<N_a, N_c>>, <<N_c, N_a>>,
                <<N_b, N_c>>, <<N_a, N_a>>},
        conf \in {HIGH, MEDIUM, LOW}}

RelLists == UNION {[1..k -> RelMenu] : k \in 0..MaxRels}

\* the table names operations are called with: the tables of the metadata
\* and a name that is no table
CallTables == TableNames \cup {N_q}

\* the values of max_depth: none, one hop, the default
MaxDepths == {0, 1, 3}

SourceLists == DistinctSeqs(CallTables, Cardinality(TableNames))

\* PipelineBuilder(metadata): the graph is built in the constructor
InitBuilder ==
    /\ tables = BuilderTables
    /\ similarity_threshold = <<4, 5>>
    /\ detected_relationships \in RelLists
    /\ relationship_graph =
           _build_relationship_graph(tables, detected_relationships)
    /\ call = [op |-> "new"]
    /\ ret = NoneObj

\* find_join_path(from_table, to_table)
FindJoinPath ==
    /\ call.op = "new"
    /\ \E from_table, to_table \in CallTables :
        /\ call' = [op |-> "find_join_path",
                    from_table |-> from_table, to_table |-> to_table]
        /\ ret' \in find_join_path(relationship_graph, from_table, to_table)
    /\ UNCHANGED <<tables, similarity_threshold, detected_relationships,
                   relationship_graph>>

\* create_pipeline(name, source_tables), join_type left at its default LEFT
CreatePipeline ==
    /\ call.op = "new"
    /\ \E source_tables \in SourceLists :
        /\ call' = [op |-> "create_pipeline", source_tables |-> source_tables]
        /\ ret' \in create_pipeline(relationship_graph, tables,
                                    source_tables, LEFT)
    /\ UNCHANGED <<tables, similarity_threshold, detected_relationships,
                   relationship_graph>>

CreateStarSchemaPipeline ==
    /\ call.op = "new"
    /\ \E fact_table \in CallTables :
        /\ call' = [op |-> "create_star_schema_pipeline",
                    fact_table |-> fact_table]
        /\ ret' \in create_star_schema_pipeline(relationship_graph, tables,
                        detected_relationships, fact_table)
    /\ UNCHANGED <<tables, similarity_threshold, detected_relationships,
                   relationship_graph>>

\* Pipeline.to_sql() on the pipeline just returned
ToSql ==
    /\ call.op \in {"create_pipeline", "create_star_schema_pipeline",
                    "Pipeline"}
    /\ ret.kind = "Pipeline"
    /\ call' = [op |-> "to_sql", pipeline |-> ret, from |-> call]
    /\ ret' = [kind |-> "str", text |-> to_sql(ret)]
    /\ UNCHANGED <<tables, similarity_threshold, detected_relationships,
                   relationship_graph>>

GenerateDatasets ==
    /\ call.op = "new"
    /\ call' = [op |-> "generate_datasets"]
    /\ ret' = generate_datasets(relationship_graph, tables,
                                 detected_relationships)
    /\ UNCHANGED <<tables, similarity_threshold, detected_relationships,
                   relationship_graph>>

\* find_all_join_paths(from_table, max_depth)
FindAllJoinPaths ==
    /\ call.op = "new"
    /\ \E from_table \in CallTables, max_depth \in MaxDepths :
        /\ call' = [op |-> "find_all_join_paths",
                    from_table |-> from_table, max_depth |-> max_depth]
        /\ ret' \in find_all_join_paths(relationship_graph, tables,
                                        from_table, max_depth)
    /\ UNCHANGED <<tables, similarity_threshold, detected_relationships,
                   relationship_graph>>

GetJoinRecommendations ==
    /\ call.op = "new"
    /\ call' = [op |-> "get_join_recommendations"]
    /\ ret' = [kind |-> "list",
               items |-> get_join_recommendations(tables,
                                                  detected_relationships)]
    /\ UNCHANGED <<tables, similarity_threshold, detected_relationships,
                   relationship_graph>>

NextBuilder ==
    \/ GetJoinRecommendations
    \/ FindAllJoinPaths
    \/ FindJoinPath
    \/ CreatePipeline
    \/ CreateStarSchemaPipeline
    \/ ToSql
    \/ GenerateDatasets

SpecBuilder == InitBuilder /\ [][NextBuilder]_vars

\* the lists a later analyze() on the held metadata may leave in it: none, or
\* all but the last of the relationships it held
ReplacementLists(rels) ==
    {<<>>} \cup (IF rels = <<>> THEN {}
                 ELSE {SubSeq(rels, 1, Len(rels) - 1)})

\* metadata.detected_relationships = relationships, on the metadata object a
\* builder holds: the builder keeps the graph its constructor built
ReplaceRelationships ==
    /\ call.op = "new"
    /\ \E relationships \in ReplacementLists(detected_relationships) :
        /\ relationships # detected_relationships
        /\ detected_relationships' = relationships
    /\ UNCHANGED <<tables, similarity_threshold, relationship_graph, call,
                   ret>>

\* a builder whose metadata is analyzed again while it is in use
NextHeldBuilder ==
    \/ ReplaceRelationships
    \/ FindJoinPath
    \/ GetJoinRecommendations
    \/ GenerateDatasets

SpecHeldBuilder == InitBuilder /\ [][NextHeldBuilder]_vars

\* metadata in which the name of one table, a, followed by an underscore
\* begins the name of another, a_x
PrefixTables ==
    <<[name |-> N_a, foreign_keys |-> <<>>,
       columns |-> <<Col(N_id, T_integer, TRUE),
                     Col(<<"x","_","i","d">>, T_integer, FALSE)>>],
      [name |-> <<"a","_","x">>, foreign_keys |-> <<>>,
       columns |-> <<Col(N_id, T_integer, TRUE), Col(N_x, T_integer, FALSE)>>],
      [name |-> N_b, foreign_keys |-> <<>>,
       columns |-> <<Col(N_id, T_integer, TRUE), Col(N_x, T_integer, FALSE)>>]>>

\* the relationship lists of that metadata; q is a table outside of it
PrefixRelLists ==
    UNION {[1..k ->
              {Rel(N_a, <<"x","_","i","d">>, <<"a","_","x">>, N_id, MEDIUM,
                   "naming_convention"),
               Rel(<<"a","_","x">>, N_x, N_b, N_id, LOW,
                   "similarity_analysis"),
               Rel(N_b, N_x, N_a, N_id, LOW, "similarity_analysis"),
               Rel(N_a, <<"x","_","i","d">>, N_q, N_id, HIGH,
                   "foreign_key_constraint")}]
           : k \in 0..MaxRels}

InitPrefix ==
    /\ tables = PrefixTables
    /\ similarity_threshold = <<4, 5>>
    /\ detected_relationships \in PrefixRelLists
    /\ relationship_graph =
           _build_relationship_graph(tables, detected_relationships)
    /\ call = [op |-> "new"]
    /\ ret = NoneObj

\* create_pipeline(name, source_tables) on that metadata
CreatePrefixPipeline ==
    /\ call.op = "new"
    /\ \E source_tables \in
            DistinctSeqs({N_a, <<"a","_","x">>, N_b, N_q}, Len(PrefixTables)) :
        /\ call' = [op |-> "create_pipeline", source_tables |-> source_tables]
        /\ ret' \in create_pipeline(relationship_graph, tables,
                                    source_tables, LEFT)
    /\ UNCHANGED <<tables, similarity_threshold, detected_relationships,
                   relationship_graph>>

NextPrefix ==
    \/ CreatePrefixPipeline
    \/ ToSql

SpecPrefix == InitPrefix /\ [][NextPrefix]_vars

\* relationship lists in which two tables can be linked both by one
\* relationship and by a chain of two
DepthRelLists ==
    UNION {[1..k ->
              {Rel(N_a, N_x, N_b, N_id, HIGH, MethodOf(HIGH)),
               Rel(N_b, N_x, N_c, N_id, HIGH, MethodOf(HIGH)),
               Rel(N_a, N_z, N_c, N_id, LOW, MethodOf(LOW)),
               Rel(N_c, N_y, N_a, N_id, MEDIUM, MethodOf(MEDIUM)),
               Rel(N_b, N_z, N_a, N_id, LOW, MethodOf(LOW))}]
           : k \in 0..MaxDepthRels}

InitDepth ==
    /\ tables = BuilderTables
    /\ similarity_threshold = <<4, 5>>
    /\ detected_relationships \in DepthRelLists
    /\ relationship_graph =
           _build_relationship_graph(tables, detected_relationships)
    /\ call = [op |-> "new"]
    /\ ret = NoneObj

NextDepth ==
    \/ FindAllJoinPaths
    \/ FindJoinPath

SpecDepth == InitDepth /\ [][NextDepth]_vars

\* PipelineStep(step_id, step_name, step_type, join_type, join_conditions,
\* filter_condition, group_by_columns)
Step(step_type, join_type, join_conditions, filter_condition, group_by) ==
    [step_id |-> 0, step_name |-> <<>>, step_type |-> step_type,
     join_type |-> join_type, join_conditions |-> join_conditions,
     filter_condition |-> filter_condition, group_by_columns |-> group_by]

\* the steps a pipeline is made of: joins with a type, without a type and
\* without conditions, filters with and without a condition, aggregates
\* with and without group-by columns
StepMenu ==
    {Step("join", LEFT, <<JoinCondition(N_a, N_x, N_b, N_id)>>, None, <<>>),
     Step("join", None, <<JoinCondition(N_b, N_y, N_c, N_id),
                          JoinCondition(N_b, N_z, N_c, N_x)>>, None, <<>>),
     Step("join", LEFT, <<>>, None, <<>>),
     Step("filter", None, <<>>, <<"x"," ",">"," ","0">>, <<>>),
     Step("filter", None, <<>>, <<"y"," ","="," ","1">>, <<>>),
     Step("filter", None, <<>>, None, <<>>),
     Step("aggregate", None, <<>>, None, <<<<"x">>>>),
     Step("aggregate", None, <<>>, None, <<<<"y">>, <<"z">>>>),
     Step("aggregate", None, <<>>, None, <<>>)}

\* Pipeline(source_tables, steps, output_columns)
Pipelines ==
    {[kind |-> "Pipeline", source_tables |-> source_tables, steps |-> steps,
      output_columns |-> output_columns] :
        source_tables \in {<<>>, <<N_a>>, <<N_a, N_b>>},
        steps \in UNION {[1..k -> StepMenu] : k \in 0..MaxSteps},
        output_columns \in {<<>>, <<ColumnMapping(N_a, N_x, N_x)>>,
                            <<ColumnMapping(N_a, N_x, N_x),
                              ColumnMapping(N_b, N_y, <<"b","_","y">>)>>}}

\* a pipeline made directly from the model classes
InitPipeline ==
    /\ tables = BuilderTables
    /\ similarity_threshold = <<4, 5>>
    /\ detected_relationships = <<>>
    /\ relationship_graph = NoGraph
    /\ call = [op |-> "Pipeline"]
    /\ ret \in Pipelines

SpecPipeline == InitPipeline /\ [][ToSql]_vars

-----------------------------------------------------------------------------
(* RelationshipAnalyzer: analyze and get_join_path *)

\* nx.shortest_path(G, source, target) without weights: the paths of fewest
\* edges, any of them
RECURSIVE BreadthFirst(_, _, _)
BreadthFirst(g, to_table, paths) ==
    LET found == {p \in paths : p[Len(p)] = to_table}
        Steps(p) == {e \in DOMAIN g.edges :
                        /\ e[1] = p[Len(p)]
                        /\ \A i \in 1..Len(p) : p[i] # e[2]}
        next == UNION {{Append(p, e[2]) : e \in Steps(p)} : p \in paths}
    IN  IF found # {} THEN found
        ELSE IF next = {} THEN {}
        ELSE BreadthFirst(g, to_table, next)

ShortestPaths(g, from_table, to_table) ==
    BreadthFirst(g, to_table, {<<from_table>>})

\* the joins list of get_join_path
JoinsOf(g, path) ==
    [kind |-> "joins",
     joins |-> [i \in 1..(Len(path) - 1) |->
                   <<path[i], g.edges[<<path[i], path[i + 1]>>].source_column,
                     path[i + 1],
                     g.edges[<<path[i], path[i + 1]>>].target_column>>]]

\* RelationshipAnalyzer.get_join_path(from_table, to_table): shortest_path
\* raises NodeNotFound, which is not caught, for a table that is no node;
\* from such a table to itself, networkx before 2.2 gives the path of the
\* table alone
get_join_path(g, from_table, to_table) ==
    IF from_table \notin g.nodes \/ to_table \notin g.nodes
    THEN {Raise("NodeNotFound")}
         \cup (IF from_table = to_table THEN {NoneObj} ELSE {})
    ELSE LET paths == ShortestPaths(g, from_table, to_table)
         IN  IF paths = {} THEN {NoneObj}
             ELSE {IF Len(p) < 2 THEN NoneObj ELSE JoinsOf(g, p) : p \in paths}

InitAnalyzer ==
    /\ tables \in Schemas
    /\ similarity_threshold \in Thresholds
    /\ detected_relationships = <<>>
    /\ relationship_graph = NoGraph
    /\ call = [op |-> "new"]
    /\ ret = NoneObj

\* RelationshipAnalyzer.analyze(metadata), on metadata that still carries the
\* detected_relationships of the call before
Analyze ==
    /\ call.op \in {"new", "analyze"}
    /\ \E metadata_tables \in NextTables(tables) :
        /\ tables' = metadata_tables
        /\ detected_relationships' =
               AnalyzeRelationships(metadata_tables, similarity_threshold)
    /\ relationship_graph' =
           AnalyzerGraph(relationship_graph, detected_relationships')
    /\ call' = [op |-> "analyze", before |-> relationship_graph]
    /\ UNCHANGED <<similarity_threshold, ret>>

\* get_join_path(from_table, to_table) on the analyzer that analyzed the
\* tables
GetJoinPath ==
    /\ call.op = "analyze"
    /\ \E from_table, to_table \in {tables[i].name : i \in 1..Len(tables)} :
        /\ call' = [op |-> "get_join_path",
                    from_table |-> from_table, to_table |-> to_table]
        /\ ret' \in get_join_path(relationship_graph, from_table, to_table)
    /\ UNCHANGED <<tables, similarity_threshold, detected_relationships,
                   relationship_graph>>

NextAnalyzer ==
    \/ Analyze
    \/ GetJoinPath

SpecAnalyzer == InitAnalyzer /\ [][NextAnalyzer]_vars

\* TableInfo(name, schema, columns, foreign_keys): the tables of the menu in
\* the schemas public and sales
QualifiedTables ==
    {[schema |-> sch, name |-> t.name, columns |-> t.columns,
      foreign_keys |-> t.foreign_keys]
        : sch \in {"public", "sales"}, t \in TableChoices}

\* TableInfo.full_name
full_name(table) == <<table.schema, table.name>>

\* databases of tables of pairwise distinct full names
QualifiedSchemas ==
    UNION {{q \in [1..k -> QualifiedTables] :
               \A i, j \in 1..k : i # j => full_name(q[i]) # full_name(q[j])}
           : k \in 1..MaxQualified}

InitQualified ==
    /\ tables \in QualifiedSchemas
    /\ similarity_threshold = <<4, 5>>
    /\ detected_relationships = <<>>
    /\ relationship_graph = NoGraph
    /\ call = [op |-> "new"]
    /\ ret = NoneObj

\* PipelineBuilder(metadata) on the metadata analyze() returned
NewPipelineBuilder ==
    /\ call.op = "analyze"
    /\ relationship_graph' =
           _build_relationship_graph(tables, detected_relationships)
    /\ call' = [op |-> "PipelineBuilder"]
    /\ UNCHANGED <<tables, similarity_threshold, detected_relationships, ret>>

\* one analysis run over a database with several schemas
NextQualified ==
    \/ Analyze
    \/ NewPipelineBuilder

SpecQualified == InitQualified /\ [][NextQualified]_vars

-----------------------------------------------------------------------------
(* AnalysisConfig and RelationshipAnalyzer.__init__ *)

\* the nesting of groups at the end of a pattern, -1 once a group is closed
\* that was not opened
RECURSIVE GroupDepth(_, _)
GroupDepth(pattern, depth) ==
    IF depth < 0 \/ pattern = <<>> THEN depth
    ELSE GroupDepth(Tail(pattern),
                    CASE Head(pattern) = "(" -> depth + 1
                      [] Head(pattern) = ")" -> depth - 1
                      [] OTHER -> depth)

\* re.compile(pattern) raises re.error: here, for unbalanced parentheses
CompileFails(pattern) == GroupDepth(pattern, 0) # 0

\* the values of fk_column_patterns: the default, one more pattern, a
\* pattern with an unclosed group, one with an unopened group
PatternLists ==
    {<<<<"_","i","d","$">>, <<"_","f","k","$">>, <<"I","d","$">>>>,
     <<<<"(","_","i","d","|","_","k","e","y",")","$">>>>,
     <<<<"_","i","d","$">>, <<"(","_","f","k","$">>>>,
     <<<<"_","i","d",")","$">>>>}

\* the values of similarity_threshold: -0.5, 0, 0.8, 1, 1.5
ConfigThresholds == Thresholds \cup {<<-1, 2>>, <<3, 2>>}

\* AnalysisConfig(fk_column_patterns, similarity_threshold): the fields have
\* no validator, every value is accepted
InitConfig ==
    /\ tables \in {q \in Schemas : Len(q) <= MaxConfigTables}
    /\ similarity_threshold \in ConfigThresholds
    /\ detected_relationships = <<>>
    /\ relationship_graph = NoGraph
    /\ \E patterns \in PatternLists :
        call = [op |-> "AnalysisConfig", fk_column_patterns |-> patterns]
    /\ ret = NoneObj

\* RelationshipAnalyzer(analysis_config)
NewRelationshipAnalyzer ==
    /\ call.op = "AnalysisConfig"
    /\ IF \E i \in 1..Len(call.fk_column_patterns) :
              CompileFails(call.fk_column_patterns[i])
       THEN /\ call' = [op |-> "RelationshipAnalyzer",
                        fk_column_patterns |-> call.fk_column_patterns]
            /\ ret' = Raise("re.error")
       ELSE /\ call' = [op |-> "new",
                        fk_column_patterns |-> call.fk_column_patterns]
            /\ ret' = ret
    /\ UNCHANGED <<tables, similarity_threshold, detected_relationships,
                   relationship_graph>>

NextConfig ==
    \/ NewRelationshipAnalyzer
    \/ Analyze

SpecConfig == InitConfig /\ [][NextConfig]_vars

-----------------------------------------------------------------------------
(* Properties of RelationshipAnalyzer.analyze, under SpecAnalyzer *)

Analyzed == call.op = "analyze"

\* the indices of the relationships whose source is (table_name, column_name)
RelsOf(table_name, column_name) ==
    {i \in 1..Len(detected_relationships) :
        /\ detected_relationships[i].source_table = table_name
        /\ detected_relationships[i].source_column = column_name}

\* the indices of the foreign keys a table declares on a column
FksOn(table, column_name) ==
    {j \in 1..Len(table.foreign_keys) :
        table.foreign_keys[j].column = column_name}

\* the column name matches a naming pattern that resolves to a table of the
\* schema
NamingMatch(column) ==
    LET potential_table == TableNameOf[column.name]
    IN  potential_table # None /\ InLookup(tables, potential_table)

\* the (table, column) pairs of the schema
TableColumns ==
    UNION {{<<tables[i], tables[i].columns[j]>> :
               j \in 1..Len(tables[i].columns)} : i \in 1..Len(tables)}

\* the columns with a declared foreign key and a naming-convention match
FkAndNaming ==
    {tc \in TableColumns :
        /\ FksOn(tc[1], tc[2].name) # {}
        /\ NamingMatch(tc[2])}

SamePair(i, j) ==
    /\ detected_relationships[i].source_table
           = detected_relationships[j].source_table
    /\ detected_relationships[i].source_column
           = detected_relationships[j].source_column

HasTable(name) == \E i \in 1..Len(tables) : tables[i].name = name

\* C3: with a table products whose column category_id has no declared
\* foreign key and a table categories with primary key id, analyze emits the
\* MEDIUM naming_convention relationship
\* products.category_id -> categories.id.
C3_Pluralization ==
    /\ Analyzed
    /\ HasTable(N_categories)
    /\ \E i \in 1..Len(tables) :
        /\ tables[i].name = N_products
        /\ FksOn(tables[i], N_category_id) = {}
    => \E i \in 1..Len(detected_relationships) :
        detected_relationships[i]
            = Rel(N_products, N_category_id, N_categories, N_id,
                  MEDIUM, "naming_convention")

\* the best score of a column against the primary keys of the other tables
IsBestScore(table, column, s) ==
    /\ \E i \in 1..Len(Candidates(tables, table)) :
        s = SimilarityOf[<<column, Candidates(tables, table)[i].col>>]
    /\ \A i \in 1..Len(Candidates(tables, table)) :
        RatGE(s, SimilarityOf[<<column, Candidates(tables, table)[i].col>>])

\* the columns the similarity tier considers: not a primary key, not claimed
\* by the FK or the naming tier, with some primary key in another table
Unclaimed ==
    {tc \in TableColumns :
        /\ ~tc[2].is_primary_key
        /\ Candidates(tables, tc[1]) # <<>>
        /\ \A i \in RelsOf(tc[1].name, tc[2].name) :
            detected_relationships[i].confidence = LOW}

HasLow(table_name, column_name) ==
    \E i \in RelsOf(table_name, column_name) :
        detected_relationships[i].confidence = LOW

\* C9: for every threshold t in 0..1, an unclaimed non-PK column whose best
\* score is s gets a LOW relationship if s >= t (s = t included) and none
\* if s < t.
C9_ThresholdBoundary ==
    Analyzed =>
        \A tc \in Unclaimed :
            \A i \in 1..Len(Candidates(tables, tc[1])) :
                LET s == SimilarityOf[<<tc[2],
                                        Candidates(tables, tc[1])[i].col>>]
                IN  IsBestScore(tc[1], tc[2], s) =>
                        (HasLow(tc[1].name, tc[2].name)
                            <=> RatGE(s, similarity_threshold))

-----------------------------------------------------------------------------
(* Properties of PipelineBuilder, under SpecBuilder *)

\* the indices of the relationships between tables A and B, in either direction
RelsBetween(A, B) ==
    {i \in 1..Len(detected_relationships) :
        \/ /\ detected_relationships[i].source_table = A
           /\ detected_relationships[i].target_table = B
        \/ /\ detected_relationships[i].source_table = B
           /\ detected_relationships[i].target_table = A}

\* find_join_path succeeds in both directions with equal cost for the two
\* tables of the call
SymmetricResult ==
    /\ ret.kind = "JoinPath"
    /\ \A back \in find_join_path(relationship_graph, call.to_table,
                                  call.from_table) :
        /\ back.kind = "JoinPath"
        /\ back.total_cost = ret.total_cost

\* C4 as stated: for every detected relationship A.x -> B.y, find_join_path
\* succeeds in both directions with equal total_cost.
C4_Original ==
    /\ call.op = "find_join_path"
    /\ RelsBetween(call.from_table, call.to_table) # {}
    => SymmetricResult

\* C4 amended: for every detected relationship A.x -> B.y between two
\* different tables, find_join_path(A, B) and find_join_path(B, A) both return
\* a JoinPath and the two have equal total_cost.
C4_GraphSymmetry ==
    /\ call.op = "find_join_path"
    /\ call.from_table # call.to_table
    /\ RelsBetween(call.from_table, call.to_table) # {}
    => SymmetricResult

\* a path was found between two different tables that several relationships
\* of different confidence connect
C4_Witness ==
    /\ call.op = "find_join_path"
    /\ call.from_table # call.to_table
    /\ ret.kind = "JoinPath"
    /\ \E i, j \in RelsBetween(call.from_table, call.to_table) :
        detected_relationships[i].confidence
            # detected_relationships[j].confidence

\* the least weight among the relationships between A and B
MinWeight(A, B) ==
    CHOOSE w \in 1..3 :
        /\ \E i \in RelsBetween(A, B) :
            w = Weight(detected_relationships[i].confidence)
        /\ \A i \in RelsBetween(A, B) :
            w <= Weight(detected_relationships[i].confidence)

\* C5: when several relationships connect two tables, the direct hop between
\* them costs the minimum of their weights, whatever their order in the list
\* (so a path between them never costs more than that minimum).
C5_LowestWeightWins ==
    /\ call.op = "find_join_path"
    /\ call.from_table # call.to_table
    /\ RelsBetween(call.from_table, call.to_table) # {}
    => /\ ret.kind = "JoinPath"
       /\ ret.total_cost <= MinWeight(call.from_table, call.to_table)
       /\ Len(ret.tables) = 2 =>
            ret.total_cost = MinWeight(call.from_table, call.to_table)

\* the tables the FROM clause and the JOIN clauses of steps 1..k introduce
Introduced(pipeline, k) ==
    {pipeline.source_tables[1]}
        \cup {JoinedTable(pipeline.steps[j]) : j \in 1..k}

\* C6: in the SQL of every pipeline create_pipeline returns, every table an ON
\* condition refers to is the FROM table or is introduced by the JOIN clause
\* of that step or an earlier one, and every requested source table is
\* introduced by FROM or a JOIN clause.
C6_SqlExecutable ==
    /\ call.op = "to_sql"
    /\ call.from.op = "create_pipeline"
    => LET pipeline == call.pipeline
       IN  /\ \A k \in 1..Len(pipeline.steps) :
                \A n \in 1..Len(pipeline.steps[k].join_conditions) :
                    LET jc == pipeline.steps[k].join_conditions[n]
                    IN  /\ jc.left_table \in Introduced(pipeline, k)
                        /\ jc.right_table \in Introduced(pipeline, k)
           /\ \A t \in Range(pipeline.source_tables) :
                t \in Introduced(pipeline, Len(pipeline.steps))

\* `FROM S`
FromText(S) == S_FROM \o S

\* `LEFT JOIN T ON S.c = T.d`
LeftJoinText(rel) ==
    LEFT \o S_space \o S_JOIN \o S_space \o rel.target_table \o S_ON
    \o rel.source_table \o S_dot \o rel.source_column \o <<" ","="," ">>
    \o rel.target_table \o S_dot \o rel.target_column

\* `<table>.<column> AS <table>_<column>`
AliasText(table_name, column_name) ==
    table_name \o S_dot \o column_name \o S_AS
    \o table_name \o S_underscore \o column_name

\* the text has FROM S, LEFT JOIN T ON S.c = T.d and every column of S and T
\* under its alias
RoundTripText(text, rel) ==
    /\ Contains(text, FromText(rel.source_table))
    /\ Contains(text, LeftJoinText(rel))
    /\ \A k \in 1..Len(tables) :
        tables[k].name \in {rel.source_table, rel.target_table} =>
            \A j \in 1..Len(tables[k].columns) :
                Contains(text, AliasText(tables[k].name,
                                         tables[k].columns[j].name))

\* C7: for every detected relationship S.c -> T.d,
\* create_pipeline(name, [S, T]) returns a pipeline whose SQL has FROM S,
\* LEFT JOIN T ON S.c = T.d and every column of S and T under the alias
\* <table>_<column>.
C7_RoundTrip ==
    \A i \in 1..Len(detected_relationships) :
        LET rel == detected_relationships[i]
            source_tables == <<rel.source_table, rel.target_table>>
        IN  /\ (call.op = "create_pipeline"
                    /\ call.source_tables = source_tables)
                => ret.kind = "Pipeline"
            /\ (call.op = "to_sql"
                    /\ call.from.op = "create_pipeline"
                    /\ call.pipeline.source_tables = source_tables)
                => RoundTripText(ret.text, rel)

\* the tables other than F that relationships with source F target
Dimensions(F) ==
    {detected_relationships[i].target_table :
        i \in {j \in 1..Len(detected_relationships) :
                  /\ detected_relationships[j].source_table = F
                  /\ detected_relationships[j].target_table # F}}

\* the index of the first relationship F -> D
FirstSeen(F, D) ==
    CHOOSE i \in 1..Len(detected_relationships) :
        /\ detected_relationships[i].source_table = F
        /\ detected_relationships[i].target_table = D
        /\ \A j \in 1..(i - 1) :
            ~ /\ detected_relationships[j].source_table = F
              /\ detected_relationships[j].target_table = D

\* C8: create_star_schema_pipeline(F) returns a pipeline with source_tables
\* [F, D1..Dk] (the tables F's relationships target, first-encounter order, no
\* duplicates) and only LEFT join steps, in which every Di is the joined
\* table of some JOIN clause; it raises when F has no such table.
C8_StarSchema ==
    call.op = "create_star_schema_pipeline" =>
        LET F == call.fact_table
        IN  IF Dimensions(F) = {} THEN ret.kind = "raise"
            ELSE /\ ret.kind = "Pipeline"
                 /\ ret.source_tables[1] = F
                 /\ Len(ret.source_tables) = 1 + Cardinality(Dimensions(F))
                 /\ Range(ret.source_tables) = {F} \cup Dimensions(F)
                 /\ \A m, n \in 2..Len(ret.source_tables) :
                        m < n => FirstSeen(F, ret.source_tables[m])
                                    < FirstSeen(F, ret.source_tables[n])
                 /\ \A k \in 1..Len(ret.steps) :
                        /\ ret.steps[k].step_type = "join"
                        /\ ret.steps[k].join_type = LEFT
                 /\ \A D \in Dimensions(F) :
                        \E k \in 1..Len(ret.steps) :
                            JoinedTable(ret.steps[k]) = D

\* the unordered pairs of tables that a HIGH relationship joins
HighPairs ==
    {{detected_relationships[i].source_table,
      detected_relationships[i].target_table} :
        i \in {j \in 1..Len(detected_relationships) :
                  detected_relationships[j].confidence = HIGH}}

\* C10: generate_datasets returns at most as many datasets as there are
\* unordered pairs of tables joined by HIGH relationships, and calls
\* create_pipeline at most once per unordered pair, whatever the direction of
\* the relationships.
C10_DatasetCount ==
    call.op = "generate_datasets" =>
        /\ Len(ret.datasets) <= Cardinality(HighPairs)
        /\ Len(ret.attempts) <= Cardinality(HighPairs)
        /\ \A i, j \in 1..Len(ret.attempts) :
            i # j => Range(ret.attempts[i]) # Range(ret.attempts[j])

\* datasets were generated from two HIGH relationships between the same two
\* tables in opposite directions
C10_Witness ==
    /\ call.op = "generate_datasets"
    /\ Len(ret.datasets) = 1
    /\ \E i, j \in 1..Len(detected_relationships) :
        /\ detected_relationships[i].confidence = HIGH
        /\ detected_relationships[j].confidence = HIGH
        /\ detected_relationships[i].source_table
               = detected_relationships[j].target_table
        /\ detected_relationships[i].target_table
               = detected_relationships[j].source_table
        /\ detected_relationships[i].source_table
               # detected_relationships[i].target_table

\* create_pipeline succeeds for the two tables of relationship i
Synthesizes(i) ==
    \E o \in create_pipeline(relationship_graph, tables,
                             <<detected_relationships[i].source_table,
                               detected_relationships[i].target_table>>, LEFT) :
        o.kind = "Pipeline"

\* some dataset joins the two tables of relationship i
HasDataset(i) ==
    \E k \in 1..Len(ret.datasets) :
        {ret.datasets[k].creation_reason[1], ret.datasets[k].creation_reason[3]}
            = {detected_relationships[i].source_table,
               detected_relationships[i].target_table}

\* C11: generate_datasets never raises, and it returns a dataset for every
\* pair of tables of a HIGH relationship for which create_pipeline succeeds,
\* whether a pair for which it fails comes before or after in the list.
C11_FailuresSwallowed ==
    call.op = "generate_datasets" =>
        /\ ret.kind = "datasets"
        /\ \A i \in 1..Len(detected_relationships) :
            (detected_relationships[i].confidence = HIGH /\ Synthesizes(i))
                => HasDataset(i)

\* the first attempt of generate_datasets failed and a later one produced a
\* dataset
C11_Witness ==
    /\ call.op = "generate_datasets"
    /\ ret.kind = "datasets"
    /\ Len(detected_relationships) = 2
    /\ detected_relationships[1].confidence = HIGH
    /\ ~Synthesizes(1)
    /\ Len(ret.attempts) = 2
    /\ Len(ret.datasets) = 1

\* the table is flagged with the type by the recommendations returned
Flagged(table_name, type) ==
    \E k \in 1..Len(ret.items) :
        ret.items[k].table = table_name /\ ret.items[k].type = type

\* the relationships the table takes part in, as source or as target
Incident(table_name) ==
    {i \in 1..Len(detected_relationships) :
        \/ detected_relationships[i].source_table = table_name
        \/ detected_relationships[i].target_table = table_name}

\* C12: get_join_recommendations flags a table isolated_table if and only if
\* it takes part in no detected relationship, as source or as target; a table
\* with exactly one relationship is flagged neither isolated_table nor
\* hub_table.
C12_IsolatedTable ==
    call.op = "get_join_recommendations" =>
        \A t \in 1..Len(tables) :
            /\ Flagged(tables[t].name, "isolated_table")
                   <=> Incident(tables[t].name) = {}
            /\ Cardinality(Incident(tables[t].name)) = 1 =>
                   /\ ~Flagged(tables[t].name, "isolated_table")
                   /\ ~Flagged(tables[t].name, "hub_table")

\* the relationships whose declared source is the table
Outgoing(table_name) ==
    {i \in 1..Len(detected_relationships) :
        detected_relationships[i].source_table = table_name}

C14_NoSelfPath ==
    (/\ call.op = "find_join_path"
     /\ call.from_table = call.to_table
     /\ call.from_table \in relationship_graph.nodes)
        => ret = NoneObj

\* find_join_path(A, A) was called for a table with a relationship to itself
C14_Witness ==
    /\ call.op = "find_join_path"
    /\ call.from_table = call.to_table
    /\ RelsBetween(call.from_table, call.from_table) # {}
    /\ ret = NoneObj

\* the tables of the schema
SchemaTables == {tables[i].name : i \in 1..Len(tables)}

\* the tables one relationship away from a table of S, in either direction
Neighbours(S) ==
    S \cup {detected_relationships[i].target_table :
               i \in {j \in 1..Len(detected_relationships) :
                         detected_relationships[j].source_table \in S}}
      \cup {detected_relationships[i].source_table :
               i \in {j \in 1..Len(detected_relationships) :
                         detected_relationships[j].target_table \in S}}

\* the tables a chain of relationships links to a table of S
RECURSIVE LinkedTo(_)
LinkedTo(S) == IF Neighbours(S) = S THEN S ELSE LinkedTo(Neighbours(S))

\* C15: for two tables of the schema that no chain of detected relationships
\* links, find_join_path returns None in both argument orders and does not
\* raise.
C15_DisconnectedNone ==
    (/\ call.op = "find_join_path"
     /\ call.from_table \in SchemaTables
     /\ call.to_table \in SchemaTables
     /\ call.to_table \notin LinkedTo({call.from_table}))
        => /\ ret = NoneObj
           /\ find_join_path(relationship_graph, call.to_table,
                             call.from_table) = {NoneObj}

\* find_join_path returned None for a table with relationships and a table
\* without any
C15_Witness ==
    /\ call.op = "find_join_path"
    /\ call.from_table \in SchemaTables
    /\ call.to_table \in SchemaTables
    /\ call.to_table \notin LinkedTo({call.from_table})
    /\ LinkedTo({call.from_table}) # {call.from_table}
    /\ LinkedTo({call.to_table}) = {call.to_table}
    /\ ret = NoneObj

\* the join paths between A and B that find_join_path finds in either direction
PathsEitherWay(A, B) ==
    {o \in find_join_path(relationship_graph, A, B)
            \cup find_join_path(relationship_graph, B, A) :
        o.kind = "JoinPath"}

\* fewer than 2 source tables, or a consecutive pair without join path
NoPipeline(source_tables) ==
    \/ Len(source_tables) < 2
    \/ \E i \in 1..(Len(source_tables) - 1) :
        PathsEitherWay(source_tables[i], source_tables[i+1]) = {}

\* a Pipeline with one join step per consecutive pair of source tables, built
\* from a join path between the two
StepPerPair(pipeline, source_tables) ==
    /\ pipeline.kind = "Pipeline"
    /\ Len(pipeline.steps) = Len(source_tables) - 1
    /\ \A i \in 1..Len(pipeline.steps) :
        /\ pipeline.steps[i].step_type = "join"
        /\ \E o \in PathsEitherWay(source_tables[i], source_tables[i+1]) :
            pipeline.steps[i].join_conditions = o.joins

RECURSIVE EdgeWeightSum(_)
EdgeWeightSum(ts) ==
    IF Len(ts) < 2 THEN 0
    ELSE relationship_graph.edges[<<ts[1], ts[2]>>].weight
         + EdgeWeightSum(Tail(ts))

\* the table sequence is a walk of the graph without repeated table
IsSimpleWalk(ts) ==
    /\ \A i, j \in 1..Len(ts) : i # j => ts[i] # ts[j]
    /\ \A i \in 1..(Len(ts) - 1) :
        <<ts[i], ts[i+1]>> \in DOMAIN relationship_graph.edges

\* the simple walks of the graph from A to B
WalksBetween(A, B) ==
    {ts \in UNION {[1..n -> relationship_graph.nodes] :
                      n \in 2..Cardinality(relationship_graph.nodes)} :
        ts[1] = A /\ ts[Len(ts)] = B /\ IsSimpleWalk(ts)}

C18_AllPathsOrdered ==
    (call.op = "find_all_join_paths" /\ ret.kind = "list") =>
        /\ \A k \in 1..Len(ret.items) :
            /\ Len(ret.items[k].joins) <= call.max_depth
            /\ ret.items[k].tables[Len(ret.items[k].tables)]
                   # call.from_table
        /\ \A k, n \in 1..Len(ret.items) :
            k < n =>
                /\ ret.items[k].tables[Len(ret.items[k].tables)]
                       # ret.items[n].tables[Len(ret.items[n].tables)]
                /\ ret.items[k].total_cost <= ret.items[n].total_cost

\* two paths were returned, the cheaper first although its target is the later
\* table of metadata.tables
C18_Witness ==
    /\ call.op = "find_all_join_paths"
    /\ ret.kind = "list"
    /\ Len(ret.items) = 2
    /\ ret.items[1].total_cost < ret.items[2].total_cost
    /\ \E t, u \in 1..Len(tables) :
        /\ u < t
        /\ tables[t].name = ret.items[1].tables[Len(ret.items[1].tables)]
        /\ tables[u].name = ret.items[2].tables[Len(ret.items[2].tables)]

\* the last relationship of the list from table u to table v
LastRel(u, v) ==
    detected_relationships[
        CHOOSE i \in 1..Len(detected_relationships) :
            /\ detected_relationships[i].source_table = u
            /\ detected_relationships[i].target_table = v
            /\ \A j \in (i + 1)..Len(detected_relationships) :
                ~ /\ detected_relationships[j].source_table = u
                  /\ detected_relationships[j].target_table = v]

\* C19: after any sequence of analyze() calls on one analyzer, with different
\* metadata from call to call, the analyzer's graph has exactly the nodes and
\* edges of the relationships the last call detected, and the relationship
\* list is the one a first call on these tables gives, whatever earlier calls
\* left in the graph or in the metadata.
C19_GraphRebuilt ==
    Analyzed =>
        /\ relationship_graph.nodes =
               {detected_relationships[i].source_table :
                    i \in 1..Len(detected_relationships)}
               \cup {detected_relationships[i].target_table :
                        i \in 1..Len(detected_relationships)}
        /\ DOMAIN relationship_graph.edges =
               {<<detected_relationships[i].source_table,
                  detected_relationships[i].target_table>> :
                    i \in 1..Len(detected_relationships)}
        /\ \A e \in DOMAIN relationship_graph.edges :
            relationship_graph.edges[e] =
                [source_column |-> LastRel(e[1], e[2]).source_column,
                 target_column |-> LastRel(e[1], e[2]).target_column,
                 confidence |-> LastRel(e[1], e[2]).confidence,
                 method |-> LastRel(e[1], e[2]).detection_method]
        /\ detected_relationships =
               _extract_fk_relationships(tables)
               \o _detect_naming_relationships(tables,
                      _extract_fk_relationships(tables))
               \o _detect_similarity_relationships(tables,
                      _extract_fk_relationships(tables)
                      \o _detect_naming_relationships(tables,
                             _extract_fk_relationships(tables)),
                      similarity_threshold)

\* analyze() ran on an analyzer whose graph held an edge of an earlier call
\* that the relationships of this call do not give
C19_Witness ==
    /\ Analyzed
    /\ relationship_graph.edges # <<>>
    /\ \E e \in DOMAIN call.before.edges :
        e \notin DOMAIN relationship_graph.edges

\* C20: at every point of a builder's use, also after the
\* detected_relationships of the metadata it holds were replaced, the edges
\* of the graph find_join_path and create_pipeline search are those of the
\* current metadata.detected_relationships.
C20_GraphFollowsMetadata ==
    relationship_graph.edges =
        _build_relationship_graph(tables, detected_relationships).edges

\* C21: tables are told apart by full name: in the graph a builder makes from
\* an analyzed database, the tables of the database are as many nodes as
\* there are tables, also when two of them have one name in two schemas.
C21_FullNameIdentity ==
    call.op = "PipelineBuilder" =>
        Cardinality({n \in relationship_graph.nodes :
                        \E i \in 1..Len(tables) : tables[i].name = n})
            = Len(tables)

\* a detected relationship from table A to table B
RelFromTo(A, B) ==
    {detected_relationships[i] : i \in
        {k \in 1..Len(detected_relationships) :
            /\ detected_relationships[k].source_table = A
            /\ detected_relationships[k].target_table = B}}

\* C22: the analyzer's graph holds both directions of every relationship:
\* for a detected relationship A.x -> B.y with A # B, get_join_path(A, B) is
\* one join from A to B and get_join_path(B, A) is one join from B to A with
\* the columns of such a relationship swapped.
C22_BothDirections ==
    call.op = "get_join_path" =>
        LET F == call.from_table
            T == call.to_table
        IN  /\ (F # T /\ RelFromTo(F, T) # {}) =>
                /\ ret.kind = "joins"
                /\ Len(ret.joins) = 1
                /\ \E rel \in RelFromTo(F, T) :
                    ret.joins[1] =
                        <<F, rel.source_column, T, rel.target_column>>
            /\ (F # T /\ RelFromTo(T, F) # {} /\ RelFromTo(F, T) = {}) =>
                /\ ret.kind = "joins"
                /\ Len(ret.joins) = 1
                /\ \E rel \in RelFromTo(T, F) :
                    ret.joins[1] =
                        <<F, rel.target_column, T, rel.source_column>>

\* C23: after analyze(), get_join_path does not raise for tables of the
\* schema: it is None for two tables no chain of relationships links, also
\* for a table that is in no relationship, and None from a table to itself.
C23_NoneNotRaise ==
    (/\ call.op = "get_join_path"
     /\ \/ call.from_table = call.to_table
        \/ call.to_table \notin LinkedTo({call.from_table}))
        => ret = NoneObj

\* C24: a configuration error is fatal at construction: an analyzer exists,
\* and detection runs, only with fk_column_patterns that compile and a
\* similarity_threshold from 0 to 1.
C24_ConfigFatal ==
    /\ call.op = "new" =>
        \A i \in 1..Len(call.fk_column_patterns) :
            ~CompileFails(call.fk_column_patterns[i])
    /\ call.op \in {"new", "analyze"} =>
        /\ RatGE(similarity_threshold, <<0, 1>>)
        /\ RatGE(<<1, 1>>, similarity_threshold)

\* the number of foreign keys the tables before table i declare
RECURSIVE FksBefore(_)
FksBefore(i) ==
    IF i = 1 THEN 0 ELSE FksBefore(i - 1) + Len(tables[i - 1].foreign_keys)

\* C25: analyze emits one HIGH relationship of method foreign_key_constraint
\* for every declared foreign key, verbatim, in table order then FK order,
\* ahead of every other relationship, and no other HIGH relationship,
\* whether or not the FK column is a primary key or the referenced table is
\* in the schema.
C25_FkTierVerbatim ==
    Analyzed =>
        /\ Len(detected_relationships) >= FksBefore(Len(tables) + 1)
        /\ \A i \in 1..Len(tables) :
            \A j \in 1..Len(tables[i].foreign_keys) :
                detected_relationships[FksBefore(i) + j] =
                    [source_table |-> tables[i].name,
                     source_column |-> tables[i].foreign_keys[j].column,
                     target_table |-> tables[i].foreign_keys[j].references_table,
                     target_column |->
                         tables[i].foreign_keys[j].references_column,
                     confidence |-> HIGH,
                     detection_method |-> "foreign_key_constraint"]
        /\ \A k \in (FksBefore(Len(tables) + 1) + 1)..Len(detected_relationships) :
            /\ detected_relationships[k].confidence # HIGH
            /\ detected_relationships[k].detection_method
                   # "foreign_key_constraint"

\* analyze ran on tables of which two declare foreign keys, one on a
\* primary-key column and one to a table outside the schema, and the other
\* tiers added relationships after them
C25_Witness ==
    /\ Analyzed
    /\ Cardinality({i \in 1..Len(tables) : tables[i].foreign_keys # <<>>}) >= 2
    /\ \E i \in 1..Len(tables) :
        \E j \in 1..Len(tables[i].foreign_keys) :
            /\ ~InLookup(tables, tables[i].foreign_keys[j].references_table)
            /\ \E c \in 1..Len(tables[i].columns) :
                /\ tables[i].columns[c].name = tables[i].foreign_keys[j].column
                /\ tables[i].columns[c].is_primary_key
    /\ Len(detected_relationships) > FksBefore(Len(tables) + 1)

\* the positions <<table, column>> of the primary-key columns of the tables
\* other than table i
PkPositions(i) ==
    {p \in UNION {{<<t, c>> : c \in 1..Len(tables[t].columns)}
                     : t \in 1..Len(tables)} :
        /\ tables[p[1]].name # tables[i].name
        /\ tables[p[1]].columns[p[2]].is_primary_key}

\* position p comes before position q in table order, then column order
Before(p, q) == p[1] < q[1] \/ (p[1] = q[1] /\ p[2] < q[2])

ScoreAt(column, p) == SimilarityOf[<<column, tables[p[1]].columns[p[2]]>>]

\* the LOW relationship k is from column c of table i to the column at p
LowFromTo(k, i, c, p) ==
    /\ detected_relationships[k].confidence = LOW
    /\ detected_relationships[k].source_table = tables[i].name
    /\ detected_relationships[k].source_column = tables[i].columns[c].name
    /\ detected_relationships[k].target_table = tables[p[1]].name
    /\ detected_relationships[k].target_column =
           tables[p[1]].columns[p[2]].name

\* C26: every LOW relationship is from a column that is no primary key to a
\* primary-key column of another table whose score is the greatest over the
\* primary-key columns of all other tables, the first of them in table order
\* then column order when several share it; a column has at most one LOW
\* relationship.
C26_BestCandidate ==
    Analyzed =>
        /\ \A k \in 1..Len(detected_relationships) :
            detected_relationships[k].confidence = LOW =>
                \E i \in 1..Len(tables) :
                    \E c \in 1..Len(tables[i].columns) :
                        /\ ~tables[i].columns[c].is_primary_key
                        /\ \E p \in PkPositions(i) :
                            /\ LowFromTo(k, i, c, p)
                            /\ \A q \in PkPositions(i) :
                                /\ RatGE(ScoreAt(tables[i].columns[c], p),
                                         ScoreAt(tables[i].columns[c], q))
                                /\ Before(q, p) =>
                                    RatGT(ScoreAt(tables[i].columns[c], p),
                                          ScoreAt(tables[i].columns[c], q))
        /\ \A k, l \in 1..Len(detected_relationships) :
            (/\ k # l
             /\ detected_relationships[k].confidence = LOW
             /\ detected_relationships[l].confidence = LOW)
                => ~SamePair(k, l)

\* analyze emitted a LOW relationship for a column that two primary keys of
\* other tables match with the same, greatest, score
C26_Witness ==
    /\ Analyzed
    /\ \E k \in 1..Len(detected_relationships) :
        \E i \in 1..Len(tables) :
            \E c \in 1..Len(tables[i].columns) :
                \E p, q \in PkPositions(i) :
                    /\ LowFromTo(k, i, c, p)
                    /\ Before(p, q)
                    /\ RatEQ(ScoreAt(tables[i].columns[c], p),
                             ScoreAt(tables[i].columns[c], q))

\* the number of columns the source tables before the k-th have in the
\* metadata
RECURSIVE ColumnsBefore(_, _)
ColumnsBefore(source_tables, k) ==
    IF k = 1 THEN 0
    ELSE ColumnsBefore(source_tables, k - 1)
         + (IF InLookup(tables, source_tables[k - 1])
            THEN Len(Lookup(tables, source_tables[k - 1]).columns)
            ELSE 0)

\* the output columns are one mapping <table>_<column> per column of every
\* source table of the metadata, in source-table order then column order
MappingPerColumn(pipeline) ==
    LET S == pipeline.source_tables
    IN  /\ Len(pipeline.output_columns) = ColumnsBefore(S, Len(S) + 1)
        /\ \A k \in 1..Len(S) :
            InLookup(tables, S[k]) =>
                \A j \in 1..Len(Lookup(tables, S[k]).columns) :
                    pipeline.output_columns[ColumnsBefore(S, k) + j] =
                        [source_table |-> S[k],
                         source_column |-> Lookup(tables, S[k]).columns[j].name,
                         target_name |->
                             S[k] \o <<"_">>
                                  \o Lookup(tables, S[k]).columns[j].name]

\* C27: the target names of the output columns of a pipeline of
\* create_pipeline are pairwise distinct, and there is one mapping
\* <table>_<column> per column of every source table of the metadata, in
\* order.
C27_DistinctTargetNames ==
    (call.op = "create_pipeline" /\ ret.kind = "Pipeline") =>
        /\ MappingPerColumn(ret)
        /\ \A m, n \in 1..Len(ret.output_columns) :
            m # n => ret.output_columns[m].target_name
                         # ret.output_columns[n].target_name

\* the fragments of the join steps, in step order
RECURSIVE JoinFragments(_)
JoinFragments(steps) ==
    IF steps = <<>> THEN <<>>
    ELSE (IF Head(steps).step_type = "join"
          THEN <<to_sql_fragment(Head(steps))>> ELSE <<>>)
         \o JoinFragments(Tail(steps))

\* the conditions of the filter steps that have one, in step order
RECURSIVE FilterConditions(_)
FilterConditions(steps) ==
    IF steps = <<>> THEN <<>>
    ELSE (IF /\ Head(steps).step_type = "filter"
             /\ Head(steps).filter_condition # None
             /\ Head(steps).filter_condition # <<>>
          THEN <<Head(steps).filter_condition>> ELSE <<>>)
         \o FilterConditions(Tail(steps))

\* the GROUP BY clauses the aggregate steps with group-by columns give
GroupByClauses(steps) ==
    {<<"G","R","O","U","P"," ","B","Y"," ">>
        \o JoinText(<<",", " ">>, steps[i].group_by_columns) :
     i \in {k \in 1..Len(steps) :
               /\ steps[k].step_type = "aggregate"
               /\ steps[k].group_by_columns # <<>>}}

\* C28: to_sql is the empty string exactly for a pipeline without source
\* tables; otherwise, for steps in any order, it is the SELECT clause (SELECT
\* * without output columns), FROM the first source table, one fragment per
\* join step in step order, one WHERE of the filter conditions joined by AND
\* if there is any, and a GROUP BY if an aggregate step has group-by columns,
\* in this order, one clause per line.
C28_ClauseOrder ==
    call.op = "to_sql" =>
        LET P == call.pipeline
            select == IF P.output_columns = <<>> THEN S_SELECT_STAR
                      ELSE S_SELECT
                           \o JoinText(S_select_sep,
                                  [i \in 1..Len(P.output_columns) |->
                                      ColumnMappingSql(P.output_columns[i])])
            where == IF FilterConditions(P.steps) = <<>> THEN <<>>
                     ELSE <<<<"W","H","E","R","E"," ">>
                            \o JoinText(S_AND, FilterConditions(P.steps))>>
        IN  /\ ret.text = <<>> <=> P.source_tables = <<>>
            /\ P.source_tables # <<>> =>
                \E group \in (IF GroupByClauses(P.steps) = {} THEN {<<>>}
                              ELSE {<<g>> : g \in GroupByClauses(P.steps)}) :
                    ret.text =
                        JoinText(S_newline,
                            <<select, S_FROM \o P.source_tables[1]>>
                            \o JoinFragments(P.steps) \o where \o group)

\* to_sql rendered a pipeline whose steps are not in clause order: an
\* aggregate step with group-by columns, then a filter step with a
\* condition, then a join step
C28_Witness ==
    /\ call.op = "to_sql"
    /\ ret.text # <<>>
    /\ Len(call.pipeline.steps) = 3
    /\ call.pipeline.steps[1].step_type = "aggregate"
    /\ call.pipeline.steps[1].group_by_columns # <<>>
    /\ call.pipeline.steps[2].step_type = "filter"
    /\ call.pipeline.steps[2].filter_condition \notin {None, <<>>}
    /\ call.pipeline.steps[3].step_type = "join"
    /\ call.pipeline.steps[3].join_conditions # <<>>


\* the HIGH relationships between two different tables that are the first of
\* the list for their unordered pair of tables
FirstOfPair ==
    {i \in 1..Len(detected_relationships) :
        /\ detected_relationships[i].confidence = HIGH
        /\ detected_relationships[i].source_table
               # detected_relationships[i].target_table
        /\ \A j \in 1..(i - 1) :
            ~ /\ detected_relationships[j].confidence = HIGH
              /\ {detected_relationships[j].source_table,
                  detected_relationships[j].target_table}
                 = {detected_relationships[i].source_table,
                    detected_relationships[i].target_table}}

\* C29: on a builder whose graph was built from the relationship list,
\* generate_datasets returns one dataset for every unordered pair of two
\* different tables that a HIGH relationship joins, none for a relationship
\* of a table with itself, in the order in which the pairs first come in the
\* list.
C29_DatasetPerPair ==
    call.op = "generate_datasets" =>
        /\ ret.kind = "datasets"
        /\ Len(ret.datasets) = Cardinality(FirstOfPair)
        /\ \A i \in FirstOfPair :
            ret.datasets[Cardinality({j \in FirstOfPair : j <= i})]
                .creation_reason
                = <<detected_relationships[i].source_table,
                    detected_relationships[i].source_column,
                    detected_relationships[i].target_table,
                    detected_relationships[i].target_column>>

\* generate_datasets ran on a list of a HIGH relationship of a table with
\* itself and a HIGH relationship between two tables, and returned one
\* dataset
C29_Witness ==
    /\ call.op = "generate_datasets"
    /\ Len(ret.datasets) = 1
    /\ Len(ret.attempts) = 2
    /\ Cardinality(FirstOfPair) = 1
    /\ \E i \in 1..Len(detected_relationships) :
        /\ detected_relationships[i].confidence = HIGH
        /\ detected_relationships[i].source_table
               = detected_relationships[i].target_table


\* the walks of least weight from A to B
LightestWalks(A, B) ==
    {w \in WalksBetween(A, B) :
        \A o \in WalksBetween(A, B) : EdgeWeightSum(w) <= EdgeWeightSum(o)}

\* the tables the returned paths lead to
Targets == {ret.items[k].tables[Len(ret.items[k].tables)] : k \in 1..Len(ret.items)}

\* C30 as stated: every table that a chain of at most max_depth joins links
\* to from_table is the target of a path find_all_join_paths returns, also
\* when the path of least weight to it has more joins.
C30_Original ==
    (call.op = "find_all_join_paths" /\ ret.kind = "list") =>
        \A T \in SchemaTables \ {call.from_table} :
            (\E w \in WalksBetween(call.from_table, T) :
                Len(w) - 1 <= call.max_depth)
                => T \in Targets

\* C30: a table of the metadata is the target of a returned path if every
\* path of least weight from from_table to it has at most max_depth joins,
\* and it is left out if every path of least weight has more, also when a
\* heavier path of at most max_depth joins links it to from_table.
C30_WithinDepthOfLightest ==
    (call.op = "find_all_join_paths" /\ ret.kind = "list") =>
        \A T \in SchemaTables \ {call.from_table} :
            /\ (/\ LightestWalks(call.from_table, T) # {}
                /\ \A w \in LightestWalks(call.from_table, T) :
                    Len(w) - 1 <= call.max_depth)
                => T \in Targets
            /\ (\A w \in LightestWalks(call.from_table, T) :
                    Len(w) - 1 > call.max_depth)
                => T \notin Targets

\* find_all_join_paths returned a path to one table and none to another
\* that one join links to from_table, because a chain of two joins to it
\* weighs less
C30_Witness ==
    /\ call.op = "find_all_join_paths"
    /\ ret.kind = "list"
    /\ call.max_depth = 1
    /\ Len(ret.items) = 1
    /\ \E T \in SchemaTables \ {call.from_table} :
        /\ T \notin Targets
        /\ <<call.from_table, T>> \in DOMAIN relationship_graph.edges
        /\ \A w \in LightestWalks(call.from_table, T) : Len(w) = 3


=============================================================================
